---- MODULE Spec2Model ----
(***************************************************************************)
(* Model of lib/services/processor-service.js: getBodyWithBOM and the      *)
(* ProcessorService methods preprocessSync and postprocessSync.            *)
(*                                                                         *)
(* JavaScript strings are sequences of one-character strings, byte arrays  *)
(* are sequences of 0..255, and every other JavaScript value is a record   *)
(* tagged by its "type" field.  The processor is the environment: what its *)
(* preprocess and postprocess functions do is an input fixed in Init.      *)
(***************************************************************************)
EXTENDS Integers, Sequences, FiniteSets

VARIABLES file, config, messages, preCalls, preOut, postCalls, postOut

vars == <<file, config, messages, preCalls, preOut, postCalls, postOut>>

(***************************************************************************)
(* Bounds of the input sets.                                               *)
(***************************************************************************)
MaxPathLen == 2
MaxNameLen == 3
MaxBlocks == 2
MaxBodyLen == 2
MaxTailLen == 2
MaxGroups == 2

(***************************************************************************)
(* Strings                                                                 *)
(***************************************************************************)
SeqsUpTo(S, n) == UNION {[1..k -> S] : k \in 0..n}

Digit == <<"0", "1", "2", "3", "4", "5", "6", "7", "8", "9">>

Digits == {Digit[k] : k \in 1..10}

RECURSIVE IndexString(_)
\* String(i) of a non-negative integer, as `${i}` produces it.
IndexString(n) ==
    IF n < 10 THEN <<Digit[n + 1]>>
    ELSE IndexString(n \div 10) \o <<Digit[(n % 10) + 1]>>

BOMChar == "\\uFEFF"

\* The characters String.prototype.trim removes (the ones the inputs use).
WhiteSpace == {" ", "\t", "\n"}

RECURSIVE TrimStart(_)
TrimStart(s) ==
    IF s # <<>> /\ Head(s) \in WhiteSpace THEN TrimStart(Tail(s)) ELSE s

RECURSIVE TrimEnd(_)
TrimEnd(s) ==
    IF s # <<>> /\ s[Len(s)] \in WhiteSpace
    THEN TrimEnd(SubSeq(s, 1, Len(s) - 1))
    ELSE s

\* String.prototype.trim
Trim(s) == TrimEnd(TrimStart(s))

(***************************************************************************)
(* path.join of node:path (POSIX): join the non-empty arguments with "/"   *)
(* and normalize the result.                                               *)
(***************************************************************************)
RECURSIVE SplitSep(_, _)
\* The segments of s between "/" characters; cur is the segment being read.
SplitSep(s, cur) ==
    IF s = <<>> THEN <<cur>>
    ELSE IF Head(s) = "/" THEN <<cur>> \o SplitSep(Tail(s), <<>>)
    ELSE SplitSep(Tail(s), Append(cur, Head(s)))

Segments(s) == SplitSep(s, <<>>)

RECURSIVE ResolveSegments(_, _, _)
\* normalizeString: drop empty and "." segments, let ".." remove the segment
\* before it, keep ".." at the front only when allowAboveRoot.
ResolveSegments(segs, res, allowAboveRoot) ==
    IF segs = <<>> THEN res
    ELSE LET seg == Head(segs)
             rest == Tail(segs)
         IN  IF seg = <<>> \/ seg = <<".">>
             THEN ResolveSegments(rest, res, allowAboveRoot)
             ELSE IF seg = <<".", ".">>
             THEN IF res # <<>> /\ res[Len(res)] # <<".", ".">>
                  THEN ResolveSegments(rest, SubSeq(res, 1, Len(res) - 1), allowAboveRoot)
                  ELSE IF allowAboveRoot
                  THEN ResolveSegments(rest, Append(res, seg), allowAboveRoot)
                  ELSE ResolveSegments(rest, res, allowAboveRoot)
             ELSE ResolveSegments(rest, Append(res, seg), allowAboveRoot)

RECURSIVE JoinSegments(_)
JoinSegments(segs) ==
    IF segs = <<>> THEN <<>>
    ELSE IF Len(segs) = 1 THEN Head(segs)
    ELSE Head(segs) \o <<"/">> \o JoinSegments(Tail(segs))

\* path.posix.normalize
Normalize(p) ==
    IF p = <<>> THEN <<".">>
    ELSE LET isAbsolute == p[1] = "/"
             trailingSeparator == p[Len(p)] = "/"
             body == JoinSegments(ResolveSegments(Segments(p), <<>>, ~isAbsolute))
         IN  IF body = <<>>
             THEN IF isAbsolute THEN <<"/">>
                  ELSE IF trailingSeparator THEN <<".", "/">> ELSE <<".">>
             ELSE (IF isAbsolute THEN <<"/">> ELSE <<>>)
                  \o body
                  \o (IF trailingSeparator THEN <<"/">> ELSE <<>>)

\* path.posix.join(a, b)
PathJoin(a, b) ==
    LET joined == IF a = <<>> THEN b
                  ELSE IF b = <<>> THEN a
                  ELSE a \o <<"/">> \o b
    IN  IF joined = <<>> THEN <<".">> ELSE Normalize(joined)

(***************************************************************************)
(* JavaScript values                                                       *)
(***************************************************************************)
Undefined == [type |-> "undefined"]

Null == [type |-> "null"]

Str(chars) == [type |-> "string", val |-> chars]

Num(n) == [type |-> "number", val |-> n]

Bytes(bs) == [type |-> "Uint8Array", val |-> bs]

Array(items) == [type |-> "array", items |-> items]

\* new Uint8Array(n): n zero bytes
Uint8ArrayNew(n) == [k \in 1..n |-> 0]

\* Mutant of Uint8ArraySet: the offset is ignored.
Uint8ArraySetAtStart(target, source, offset) ==
    [k \in 1..Len(target) |->
        IF k <= Len(source) THEN source[k] ELSE target[k]]

\* target.set(source, offset): copy source into target from index offset on
Uint8ArraySet(target, source, offset) ==
    [k \in 1..Len(target) |->
        IF k > offset /\ k <= offset + Len(source)
        THEN source[k - offset]
        ELSE target[k]]

(***************************************************************************)
(* getBodyWithBOM(file)                                                    *)
(***************************************************************************)
getBodyWithBOM(f) ==
    IF ~f.bom THEN f.body
    ELSE IF f.body.type = "string" THEN Str(<<BOMChar>> \o f.body.val)
    ELSE LET bom == <<239, 187, 191>>
             allocated == Uint8ArrayNew(Len(bom) + Len(f.body.val))
             withBom == Uint8ArraySet(allocated, bom, 0)
             bodyWithBOM == Uint8ArraySet(withBom, f.body.val, Len(bom))
         IN  Bytes(bodyWithBOM)

(***************************************************************************)
(* ex.message.replace(/^line \d+:/iu, "").trim()                           *)
(***************************************************************************)
\* Mutant of Canonicalize: the pattern without the i flag.
CanonicalizeCaseSensitive(c) == c

\* Case folding of the letters the pattern names (the i flag).
Canonicalize(c) ==
    CASE c = "L" -> "l"
      [] c = "I" -> "i"
      [] c = "N" -> "n"
      [] c = "E" -> "e"
      [] OTHER -> c

RECURSIVE DigitsEnd(_, _)
\* The first index from i on that holds no digit (Len(s) + 1 if none).
DigitsEnd(s, i) ==
    IF i <= Len(s) /\ s[i] \in Digits THEN DigitsEnd(s, i + 1) ELSE i

\* Length of the match of /^line \d+:/iu at the start of s, 0 if none.
LineNumberMatch(s) ==
    IF /\ Len(s) >= 7
       /\ Canonicalize(s[1]) = "l"
       /\ Canonicalize(s[2]) = "i"
       /\ Canonicalize(s[3]) = "n"
       /\ Canonicalize(s[4]) = "e"
       /\ s[5] = " "
    THEN LET j == DigitsEnd(s, 6)
         IN  IF j > 6 /\ j <= Len(s) /\ s[j] = ":" THEN j ELSE 0
    ELSE 0

\* s.replace(/^line \d+:/iu, "")
StripLineNumber(s) == SubSeq(s, LineNumberMatch(s) + 1, Len(s))

PreprocessingErrorPrefix ==
    <<"P", "r", "e", "p", "r", "o", "c", "e", "s", "s", "i", "n", "g", " ",
      "e", "r", "r", "o", "r", ":", " ">>

\* `Preprocessing error: ${msg.replace(/^line \d+:/iu, "").trim()}`
ErrorMessage(msg) == PreprocessingErrorPrefix \o Trim(StripLineNumber(msg))

(***************************************************************************)
(* new VFile(path, body, { physicalPath }) of lib/linter/vfile.js: a value *)
(* with a logical path, a physical path and a body.                        *)
(***************************************************************************)
VFile(path, body, physicalPath) ==
    [type |-> "VFile", path |-> path, body |-> body, physicalPath |-> physicalPath]

(***************************************************************************)
(* preprocessSync(file, config)                                            *)
(***************************************************************************)
\* `${i}_${block.filename}` for the block at index i (0-based)
BlockName(i, block) == IndexString(i) \o <<"_">> \o block.filename

\* Mutant of MapBlock: the derived file's physical path is its own path.
MapBlockOwnPhysicalPath(f, blocks, k) ==
    LET block == blocks[k]
        i == k - 1
    IN  IF block.type = "string" THEN block
        ELSE LET filePath == PathJoin(f.path, BlockName(i, block))
             IN  VFile(filePath, block.text, filePath)

\* Mutant of MapBlock: a string block is wrapped in a VFile too.
MapBlockWrapsStrings(f, blocks, k) ==
    LET block == blocks[k]
        i == k - 1
    IN  IF block.type = "string"
        THEN VFile(PathJoin(f.path, IndexString(i)), block.val, f.physicalPath)
        ELSE LET filePath == PathJoin(f.path, BlockName(i, block))
             IN  VFile(filePath, block.text, f.physicalPath)

\* The callback of blocks.map: k is the 1-based position, i = k - 1.
MapBlock(f, blocks, k) ==
    LET block == blocks[k]
        i == k - 1
    IN  IF block.type = "string" THEN block
        ELSE LET filePath == PathJoin(f.path, BlockName(i, block))
             IN  VFile(filePath, block.text, f.physicalPath)

\* Mutant of CatchResult: line is read from ex.line.
CatchResultLineField(ex) ==
    IF ex.type # "object" \/ ex.message.type # "string"
    THEN [status |-> "threw", error |-> "TypeError"]
    ELSE [status |-> "returned",
          value |-> [ok |-> FALSE,
                     errors |-> <<[ruleId |-> Null,
                                   fatal |-> TRUE,
                                   severity |-> 2,
                                   message |-> ErrorMessage(ex.message.val),
                                   line |-> ex.line,
                                   column |-> ex.column,
                                   nodeType |-> Null]>>]]

\* The catch clause: the result for a thrown value ex.  Reading ex.message
\* of null or undefined, or calling replace on a message that is no string,
\* throws a TypeError out of the catch clause.
CatchResult(ex) ==
    IF ex.type # "object" \/ ex.message.type # "string"
    THEN [status |-> "threw", error |-> "TypeError"]
    ELSE [status |-> "returned",
          value |-> [ok |-> FALSE,
                     errors |-> <<[ruleId |-> Null,
                                   fatal |-> TRUE,
                                   severity |-> 2,
                                   message |-> ErrorMessage(ex.message.val),
                                   line |-> ex.lineNumber,
                                   column |-> ex.column,
                                   nodeType |-> Null]>>]]

\* typeof v.then === "function"
HasCallableThen(v) ==
    \/ v.type = "promise"
    \/ "then" \in DOMAIN v /\ v.then.type = "function"

\* Mutant of BlocksResult: no test of blocks.then; a promise has no map.
BlocksResultNoThenTest(f, blocks) ==
    IF blocks.type \in {"undefined", "null", "promise"}
    THEN [status |-> "threw", error |-> "TypeError"]
    ELSE [status |-> "returned",
          value |-> [ok |-> TRUE,
                     files |-> [k \in 1..Len(blocks.items) |->
                                   MapBlock(f, blocks.items, k)]]]

\* Mutant of BlocksResult: the files are in reverse order.
BlocksResultReversed(f, blocks) ==
    IF blocks.type \in {"undefined", "null"}
    THEN [status |-> "threw", error |-> "TypeError"]
    ELSE IF HasCallableThen(blocks)
    THEN [status |-> "threw", error |-> "Unsupported: Preprocessor returned a promise."]
    ELSE [status |-> "returned",
          value |-> [ok |-> TRUE,
                     files |-> [k \in 1..Len(blocks.items) |->
                                   MapBlock(f, blocks.items, Len(blocks.items) + 1 - k)]]]

\* The statements after the try block, for the value the processor returned.
\* Reading blocks.then of undefined or null throws a TypeError.
BlocksResult(f, blocks) ==
    IF blocks.type \in {"undefined", "null"}
    THEN [status |-> "threw", error |-> "TypeError"]
    ELSE IF HasCallableThen(blocks)
    THEN [status |-> "threw", error |-> "Unsupported: Preprocessor returned a promise."]
    ELSE [status |-> "returned",
          value |-> [ok |-> TRUE,
                     files |-> [k \in 1..Len(blocks.items) |->
                                   MapBlock(f, blocks.items, k)]]]

\* The call of processor.preprocess and the outcome of preprocessSync.
preprocessSync(f, cfg) ==
    LET preprocess == cfg.processor.preprocess
    IN  [calls |-> <<[body |-> getBodyWithBOM(f), path |-> f.path]>>,
         out |-> IF preprocess.kind = "throw"
                 THEN CatchResult(preprocess.ex)
                 ELSE BlocksResult(f, preprocess.blocks)]

CallPreprocessSync ==
    /\ preOut.status = "none"
    /\ LET r == preprocessSync(file, config)
       IN  /\ preCalls' = preCalls \o r.calls
           /\ preOut' = r.out
    /\ UNCHANGED <<file, config, messages, postCalls, postOut>>

(***************************************************************************)
(* postprocessSync(file, messages, config)                                 *)
(***************************************************************************)
RECURSIVE Flatten(_)
Flatten(groups) ==
    IF groups = <<>> THEN <<>> ELSE Head(groups).items \o Flatten(Tail(groups))

\* What the processor's postprocess function does with (messages, filename):
\* the functions a processor may supply, named by fn.
PostprocessCall(fn, msgs, filename) ==
    CASE fn = "flatten" -> [kind |-> "return", value |-> Array(Flatten(msgs.items))]
      [] fn = "first" ->
            [kind |-> "return",
             value |-> IF msgs.items = <<>> THEN Array(<<>>) ELSE Head(msgs.items)]
      [] fn = "same" -> [kind |-> "return", value |-> msgs]
      [] fn = "filename" -> [kind |-> "return", value |-> Array(<<Str(filename)>>)]
      [] fn = "throw" -> [kind |-> "throw", ex |-> "postprocess failed"]

\* Mutant of postprocessSync: without a postprocess the messages are
\* flattened, and postprocess is handed the flattened messages.
postprocessSyncFlattens(f, msgs, cfg) ==
    LET postprocess == cfg.processor.postprocess
        flat == Array(Flatten(msgs.items))
    IN  IF postprocess.type # "undefined"
        THEN LET called == PostprocessCall(postprocess.fn, msgs, f.path)
             IN  [calls |-> <<[messages |-> flat, path |-> f.path]>>,
                  out |-> IF called.kind = "throw"
                          THEN [status |-> "threw", error |-> called.ex]
                          ELSE [status |-> "returned", value |-> called.value]]
        ELSE [calls |-> <<>>,
              out |-> [status |-> "returned", value |-> flat]]

\* The call of processor.postprocess, if any, and the outcome of
\* postprocessSync.
postprocessSync(f, msgs, cfg) ==
    LET postprocess == cfg.processor.postprocess
    IN  IF postprocess.type # "undefined"
        THEN LET called == PostprocessCall(postprocess.fn, msgs, f.path)
             IN  [calls |-> <<[messages |-> msgs, path |-> f.path]>>,
                  out |-> IF called.kind = "throw"
                          THEN [status |-> "threw", error |-> called.ex]
                          ELSE [status |-> "returned", value |-> called.value]]
        ELSE [calls |-> <<>>,
              out |-> [status |-> "returned", value |-> msgs]]

CallPostprocessSync ==
    /\ postOut.status = "none"
    /\ LET r == postprocessSync(file, messages, config)
       IN  /\ postCalls' = postCalls \o r.calls
           /\ postOut' = r.out
    /\ UNCHANGED <<file, config, messages, preCalls, preOut>>

(***************************************************************************)
(* Inputs                                                                  *)
(***************************************************************************)
PathChars == {"/", ".", "a"}

Paths == SeqsUpTo(PathChars, MaxPathLen)

FileNames == SeqsUpTo(PathChars, MaxNameLen)

Block(text, filename) == [type |-> "object", text |-> text, filename |-> filename]

Returns(blocks) == [kind |-> "return", blocks |-> blocks]

Throws(ex) == [kind |-> "throw", ex |-> ex]

Function(fn) == [type |-> "function", fn |-> fn]

\* A promise: a callable then, no array methods.
Promise == [type |-> "promise"]

\* An array that also has a callable then member.
ThenableArray(items) == [type |-> "array", items |-> items, then |-> Function("then")]

Config(preprocess, postprocess) ==
    [processor |-> [preprocess |-> preprocess, postprocess |-> postprocess]]

Error(message, lineNumber, column, line) ==
    [type |-> "object", message |-> message, lineNumber |-> lineNumber,
     column |-> column, line |-> line]

DefaultFile ==
    [path |-> <<"a">>, physicalPath |-> <<"p">>, body |-> Str(<<"x">>), bom |-> FALSE]

DefaultMessages == Array(<<>>)

\* The arguments of the calls: a file, a configuration and messages.
Given(f, cfg, msgs) ==
    /\ file = f
    /\ config = cfg
    /\ messages = msgs

\* One structured block with any file name, after 0..MaxBlocks-1 strings,
\* in a file with any path.
PathInputs ==
    \E p \in Paths, name \in FileNames, n \in 1..MaxBlocks :
        Given([DefaultFile EXCEPT !.path = p],
              Config(Returns(Array([k \in 1..n |->
                  IF k < n THEN Str(<<"s">>) ELSE Block(<<"t">>, name)])),
                  Undefined),
              DefaultMessages)

\* File names of separators and dots only, and two ordinary ones.
SiblingNames ==
    SeqsUpTo({"/", "."}, MaxNameLen) \cup {<<"a">>, <<"a", "/", ".", ".">>}

SiblingBlocks == {Str(<<"s">>)} \cup {Block(<<"t">>, name) : name \in SiblingNames}

\* Any blocks with any file names, in a file with a relative or absolute path.
SiblingInputs ==
    \E p \in {<<"a">>, <<"/", "a">>}, n \in 0..MaxBlocks :
        \E blocks \in [1..n -> SiblingBlocks] :
            Given([DefaultFile EXCEPT !.path = p],
                  Config(Returns(Array(blocks)), Undefined),
                  DefaultMessages)

OrderBlocks ==
    {Str(<<"s">>), Str(<<"t">>)}
        \cup {Block(text, name) : text \in {<<"s">>, <<"t">>},
                                 name \in {<<"x">>, <<"y", ".", "j", "s">>}}

\* Blocks that differ in text and shape, in a file whose physical path is or
\* is not its path.
OrderInputs ==
    \E pp \in {<<"a">>, <<"p">>}, n \in 0..(MaxBlocks + 1) :
        \E blocks \in [1..n -> OrderBlocks] :
            Given([DefaultFile EXCEPT !.physicalPath = pp],
                  Config(Returns(Array(blocks)), Undefined),
                  DefaultMessages)

Bodies ==
    {Str(s) : s \in SeqsUpTo({"x", BOMChar}, MaxBodyLen)}
        \cup {Bytes(b) : b \in SeqsUpTo({0, 239, 255}, MaxBodyLen)}

\* Any body with and without a stripped BOM, and every kind of return value.
BodyInputs ==
    \E body \in Bodies, bom \in BOOLEAN :
        \E pre \in {Returns(Array(<<>>)), Returns(Array(<<Block(<<"t">>, <<"x">>)>>)),
                    Returns(Promise), Returns(ThenableArray(<<>>)),
                    Returns(ThenableArray(<<Str(<<"s">>), Block(<<"t">>, <<"x">>)>>)),
                    Returns(Undefined),
                    Throws(Error(Str(<<"x">>), Undefined, Undefined, Undefined))} :
            Given([DefaultFile EXCEPT !.body = body, !.bom = bom],
                  Config(pre, Undefined),
                  DefaultMessages)

MessageHeads ==
    { <<>>,
      <<"l", "i", "n", "e", " ", "4", ":">>,
      <<"L", "I", "N", "E", " ", "1", "2", ":">>,
      <<"L", "i", "n", "e", " ", "4", ":">>,
      <<"l", "i", "n", "e", " ", "4">>,
      <<"l", "i", "n", "e", " ", ":">>,
      <<"l", "i", "n", "e", "4", ":">>,
      <<"l", "i", "n", "e", " ", " ", "4", ":">>,
      <<"l", "i", "n", "e", " ", "4", " ", ":">>,
      <<" ", "l", "i", "n", "e", " ", "4", ":">>,
      <<"x", "l", "i", "n", "e", " ", "4", ":">>,
      <<"\t">> }

ErrorMessages ==
    {head \o tail : head \in MessageHeads,
                    tail \in SeqsUpTo({" ", "x", ":", "7"}, MaxTailLen)}
        \cup {<<"l", "i", "n", "e", " ", "4", ":", " ",
                "b", "a", "d", " ", "t", "o", "k", "e", "n">>}

Positions == {Undefined, Num(1), Num(2)}

ThrownValues ==
    {Null, Undefined, Str(<<"x">>)}
        \cup {Error(Str(m), Undefined, Undefined, Undefined) : m \in ErrorMessages}
        \cup {Error(m, l, c, ln) :
                m \in {Str(<<"x">>), Undefined, Num(4)},
                l \in Positions, c \in Positions, ln \in Positions}

\* Every value the processor's preprocess may throw.
ThrowInputs ==
    \E ex \in ThrownValues :
        Given(DefaultFile, Config(Throws(ex), Undefined), DefaultMessages)

Message(ruleId) == [type |-> "message", ruleId |-> ruleId]

MessageGroups == {Array(g) : g \in SeqsUpTo({Message(1), Message(2)}, 2)}

PostprocessFunctions == {"flatten", "first", "same", "filename", "throw"}

\* Any message matrix, with every postprocess function and with none.
MessageInputs ==
    \E p \in {<<"a">>, <<"/", "a">>}, n \in 0..MaxGroups :
        \E post \in {Undefined} \cup {Function(fn) : fn \in PostprocessFunctions},
           groups \in [1..n -> MessageGroups] :
            Given([DefaultFile EXCEPT !.path = p],
                  Config(Returns(Array(<<>>)), post),
                  Array(groups))

(***************************************************************************)
(* Specification                                                           *)
(***************************************************************************)
Init ==
    /\ \/ PathInputs
       \/ SiblingInputs
       \/ OrderInputs
       \/ BodyInputs
       \/ ThrowInputs
       \/ MessageInputs
    /\ preCalls = <<>>
    /\ preOut = [status |-> "none"]
    /\ postCalls = <<>>
    /\ postOut = [status |-> "none"]

Next == CallPreprocessSync \/ CallPostprocessSync

Spec == Init /\ [][Next]_vars

(***************************************************************************)
(* Properties                                                              *)
(***************************************************************************)
PreDone == preOut.status # "none"

PostDone == postOut.status # "none"

ProcessorThrew == config.processor.preprocess.kind = "throw"

ProcessorReturned == config.processor.preprocess.kind = "return"

\* preprocessSync returned { ok: true, files }
OkResult == preOut.status = "returned" /\ preOut.value.ok

\* preprocessSync returned { ok: false, errors }
ErrorResult == preOut.status = "returned" /\ ~preOut.value.ok

\* The processor returned an array without a callable then.
ReturnedBlocks ==
    /\ ProcessorReturned
    /\ config.processor.preprocess.blocks.type = "array"
    /\ ~HasCallableThen(config.processor.preprocess.blocks)

Blocks == config.processor.preprocess.blocks.items

\* parent + "/" + i + "_" + filename, character by character
Concatenation(parent, i, filename) ==
    parent \o <<"/">> \o IndexString(i) \o <<"_">> \o filename

\* s has no empty segment between two separators and no "." or ".." segment.
PlainSegments(s) ==
    /\ \A j \in 1..(Len(s) - 1) : ~(s[j] = "/" /\ s[j + 1] = "/")
    /\ \A j \in 1..Len(Segments(s)) :
          Segments(s)[j] \notin {<<".">>, <<".", ".">>}

\* C1: whatever value processor.preprocess throws, preprocessSync returns
\* { ok: false } with no files and exactly one error record, which has
\* ruleId null, fatal true, severity 2 and nodeType null.
C1_AnyThrowBecomesDiagnostic ==
    (PreDone /\ ProcessorThrew) =>
        /\ preOut.status = "returned"
        /\ preOut.value.ok = FALSE
        /\ "files" \notin DOMAIN preOut.value
        /\ Len(preOut.value.errors) = 1
        /\ preOut.value.errors[1].ruleId = Null
        /\ preOut.value.errors[1].fatal = TRUE
        /\ preOut.value.errors[1].severity = 2
        /\ preOut.value.errors[1].nodeType = Null

\* C2: when processor.preprocess returns a value with a callable then,
\* preprocessSync throws: it returns no result object and builds no file.
C2_ThenableThrows ==
    (PreDone /\ ProcessorReturned
        /\ HasCallableThen(config.processor.preprocess.blocks)) =>
        /\ preOut.status = "threw"
        /\ "value" \notin DOMAIN preOut

C2_Witness ==
    /\ PreDone
    /\ ProcessorReturned
    /\ config.processor.preprocess.blocks.type = "array"
    /\ HasCallableThen(config.processor.preprocess.blocks)
    /\ Len(config.processor.preprocess.blocks.items) = 2
    /\ preOut.status = "threw"

C4_DistinctSiblingPaths ==
    OkResult =>
        \A j, k \in 1..Len(preOut.value.files) :
            (/\ j # k
             /\ preOut.value.files[j].type = "VFile"
             /\ preOut.value.files[k].type = "VFile") =>
                preOut.value.files[j].path # preOut.value.files[k].path

\* h is a match of /^line \d+:/iu: "line" in any case, one space, one or
\* more digits, a colon.
IsLineNumberPrefix(h) ==
    /\ Len(h) >= 7
    /\ h[1] \in {"l", "L"}
    /\ h[2] \in {"i", "I"}
    /\ h[3] \in {"n", "N"}
    /\ h[4] \in {"e", "E"}
    /\ h[5] = " "
    /\ \A j \in 6..(Len(h) - 1) : h[j] \in {"0", "1", "2", "3", "4", "5", "6", "7", "8", "9"}
    /\ h[Len(h)] = ":"

\* core is s without its leading and trailing white space.
IsTrimOf(core, s) ==
    \E a, b \in 0..Len(s) :
        /\ a + b <= Len(s)
        /\ core = SubSeq(s, a + 1, Len(s) - b)
        /\ \A j \in 1..a : s[j] \in {" ", "\t", "\n"}
        /\ \A j \in (Len(s) - b + 1)..Len(s) : s[j] \in {" ", "\t", "\n"}
        /\ core # <<>> => /\ core[1] \notin {" ", "\t", "\n"}
                          /\ core[Len(core)] \notin {" ", "\t", "\n"}

\* C5: when processor.preprocess throws an error with message m, the
\* diagnostic's message is "Preprocessing error: " followed by m without its
\* leading match of `line <digits>:` (any case), if it has one, trimmed.
C5_MessageStripped ==
    (/\ PreDone
     /\ ProcessorThrew
     /\ config.processor.preprocess.ex.type = "object"
     /\ config.processor.preprocess.ex.message.type = "string") =>
        /\ ErrorResult
        /\ LET m == config.processor.preprocess.ex.message.val
               r == preOut.value.errors[1].message
               n == Len(PreprocessingErrorPrefix)
           IN  /\ Len(r) >= n
               /\ SubSeq(r, 1, n) = PreprocessingErrorPrefix
               /\ \E k \in 0..Len(m) :
                     /\ IF k = 0
                        THEN \A j \in 1..Len(m) : ~IsLineNumberPrefix(SubSeq(m, 1, j))
                        ELSE IsLineNumberPrefix(SubSeq(m, 1, k))
                     /\ IsTrimOf(SubSeq(r, n + 1, Len(r)), SubSeq(m, k + 1, Len(m)))

C5_Witness ==
    /\ ErrorResult
    /\ config.processor.preprocess.ex.type = "object"
    /\ config.processor.preprocess.ex.message =
          Str(<<"l", "i", "n", "e", " ", "4", ":", " ",
                "b", "a", "d", " ", "t", "o", "k", "e", "n">>)
    /\ preOut.value.errors[1].message =
          PreprocessingErrorPrefix \o <<"b", "a", "d", " ", "t", "o", "k", "e", "n">>

C7_BodyWithBOM ==
    PreDone =>
        /\ Len(preCalls) = 1
        /\ LET handed == preCalls[1].body
           IN  IF ~file.bom THEN handed = file.body
               ELSE IF file.body.type = "string"
               THEN /\ handed.type = "string"
                    /\ Len(handed.val) = Len(file.body.val) + 1
                    /\ Head(handed.val) = BOMChar
                    /\ Tail(handed.val) = file.body.val
               ELSE /\ handed.type = "Uint8Array"
                    /\ Len(handed.val) = 3 + Len(file.body.val)
                    /\ handed.val[1] = 239
                    /\ handed.val[2] = 187
                    /\ handed.val[3] = 191
                    /\ \A j \in 1..Len(file.body.val) :
                          handed.val[3 + j] = file.body.val[j]

C7_Witness ==
    /\ PreDone
    /\ file.bom
    /\ file.body = Bytes(<<239, 255>>)
    /\ preCalls = <<[body |-> Bytes(<<239, 187, 191, 239, 255>>), path |-> file.path]>>

\* C8: a string block is in the ok result as that same string, not wrapped
\* in a VFile, at the position it had in the returned array.
C8_StringPassThrough ==
    (OkResult /\ ReturnedBlocks) =>
        /\ Len(preOut.value.files) >= Len(Blocks)
        /\ \A k \in 1..Len(Blocks) :
              Blocks[k].type = "string" => preOut.value.files[k] = Blocks[k]

C8_Witness ==
    /\ OkResult
    /\ ReturnedBlocks
    /\ Len(Blocks) = 3
    /\ Blocks[1].type = "object"
    /\ Blocks[2] = Str(<<"t">>)
    /\ Blocks[3] = Str(<<"s">>)
    /\ preOut.value.files[2] = Str(<<"t">>)
    /\ preOut.value.files[3] = Str(<<"s">>)

C10_LineFromLineField ==
    (ErrorResult /\ ProcessorThrew) =>
        /\ preOut.value.errors[1].line = config.processor.preprocess.ex.line
        /\ preOut.value.errors[1].column = config.processor.preprocess.ex.column

\* C10 amended: the diagnostic's line is the thrown error's lineNumber field
\* and its column the error's column field, each undefined when the error
\* has no such field; a field named line is not read.
C10_LineFromLineNumber ==
    (ErrorResult /\ ProcessorThrew) =>
        /\ preOut.value.errors[1].line = config.processor.preprocess.ex.lineNumber
        /\ preOut.value.errors[1].column = config.processor.preprocess.ex.column

C10_Witness ==
    /\ ErrorResult
    /\ ProcessorThrew
    /\ config.processor.preprocess.ex.lineNumber = Num(1)
    /\ config.processor.preprocess.ex.column = Num(2)
    /\ config.processor.preprocess.ex.line = Undefined
    /\ preOut.value.errors[1].line = Num(1)
    /\ preOut.value.errors[1].column = Num(2)

====
